---------------------------- MODULE Spec2Model ----------------------------
(* Model of tools/remove_unused_imports.py: the import pruner.             *)
(* A text is a sequence of one-character strings; a file is a text; the    *)
(* tree is the list of *.java files under the root, in traversal order.    *)
(* Python's 0-based line indices are 1-based here.                         *)
EXTENDS Integers, Sequences, FiniteSets, TLC

(***************************************************************************)
(* Bounds of the model.                                                    *)
(***************************************************************************)
MaxLines == 2      \* lines of the varied file of the tree
NumFiles == 2      \* files found by rglob
MaxRuns == 2       \* invocations of the tool in succession

(***************************************************************************)
(* Characters.                                                             *)
(***************************************************************************)
Letters == {"a", "c", "i", "m", "o", "p", "r", "s", "t", "x", "B", "C"}
Whitespace == {" ", "\t", "\n", "\r"}

\* \w of the regular expressions
IsWord(c) == c \in Letters

\* \s of the regular expressions, and what str.strip() strips
IsSpace(c) == c \in Whitespace

kw_import == <<"i", "m", "p", "o", "r", "t">>
kw_static == <<"s", "t", "a", "t", "i", "c">>

\* the literal 'import ' of line 12
lit_import_sp == kw_import \o <<" ">>

\* the literal 'import static' of line 12
lit_import_static == kw_import \o <<" ">> \o kw_static

(***************************************************************************)
(* str and re primitives, computed as Python computes them.                *)
(***************************************************************************)
\* str.startswith
startswith(s, prefix) ==
    /\ Len(s) >= Len(prefix)
    /\ \A k \in 1..Len(prefix) : s[k] = prefix[k]

\* first index >= i whose character is not in the class cls (Len+1 if none):
\* the end of a greedy run  cls*  starting at i
RunEnd(s, i, cls) ==
    CHOOSE j \in i..(Len(s) + 1) :
        /\ \A k \in i..(j - 1) : s[k] \in cls
        /\ (j = Len(s) + 1 \/ s[j] \notin cls)

\* str.strip(): leading and trailing whitespace removed
strip(s) ==
    LET a == RunEnd(s, 1, Whitespace)
        b == IF a > Len(s) THEN 0
             ELSE CHOOSE j \in a..Len(s) :
                      /\ ~IsSpace(s[j])
                      /\ \A k \in (j + 1)..Len(s) : IsSpace(s[k])
    IN  IF a > Len(s) THEN <<>> ELSE SubSeq(s, a, b)

\* str.splitlines(): breaks at \n, \r and \r\n; no empty string for a final break
RECURSIVE splitlines_from(_, _, _)
splitlines_from(t, i, cur) ==
    IF i > Len(t) THEN (IF cur = <<>> THEN <<>> ELSE <<cur>>)
    ELSE IF t[i] = "\n" THEN <<cur>> \o splitlines_from(t, i + 1, <<>>)
    ELSE IF t[i] = "\r"
         THEN <<cur>> \o splitlines_from(t,
                  IF i < Len(t) /\ t[i + 1] = "\n" THEN i + 2 ELSE i + 1, <<>>)
    ELSE splitlines_from(t, i + 1, Append(cur, t[i]))

splitlines(t) == splitlines_from(t, 1, <<>>)

\* '\n'.join(ls)
RECURSIVE join(_)
join(ls) ==
    IF ls = <<>> THEN <<>>
    ELSE IF Len(ls) = 1 THEN ls[1]
    ELSE ls[1] \o <<"\n">> \o join(Tail(ls))

\* the class [\w\.] of group 1 of the pattern
WordOrDot == Letters \cup {"."}

NoMatch == [ok |-> FALSE, simple |-> <<>>, end |-> 0]

\* the pattern with its package path made optional:
\* r'\s*import\s+(?:[\w\.]+\.)?(\w+)\s*;\s*'
re_match_dotless(l) ==
    LET a == RunEnd(l, 1, Whitespace)
        b == a + Len(kw_import)
        c == RunEnd(l, b, Whitespace)
        q == RunEnd(l, c, WordOrDot)
        dots == {e \in c..(q - 1) : l[e] = "."}
        e == IF dots = {} THEN c - 1 ELSE CHOOSE x \in dots : \A y \in dots : y <= x
        g == RunEnd(l, q, Whitespace)
    IN  IF /\ Len(l) >= b
           /\ SubSeq(l, a, b - 1) = kw_import
           /\ c > b
           /\ q > e + 1
           /\ g <= Len(l)
           /\ l[g] = ";"
        THEN [ok |-> TRUE, simple |-> SubSeq(l, e + 1, q - 1),
              end |-> RunEnd(l, g + 1, Whitespace)]
        ELSE NoMatch

\* re.match(r'\s*import\s+([\w\.]+)\.(\w+)\s*;\s*', l): anchored at the start
\* of l only. Group 1 is greedy, so the separating dot is the last one that
\* lets the rest match; group 2 is the whole run of \w after it (a shorter one
\* would leave a \w where \s*; is required). end is the first index after
\* the match.
re_match(l) ==
    LET a == RunEnd(l, 1, Whitespace)
        b == a + Len(kw_import)
        c == RunEnd(l, b, Whitespace)
        Sep(e) ==
            /\ e > c
            /\ \A k \in c..(e - 1) : l[k] \in WordOrDot
            /\ l[e] = "."
            /\ LET f == RunEnd(l, e + 1, Letters)
                   g == RunEnd(l, f, Whitespace)
               IN  f > e + 1 /\ g <= Len(l) /\ l[g] = ";"
        seps == {e \in 1..Len(l) : Sep(e)}
    IN  IF /\ Len(l) >= b
           /\ SubSeq(l, a, b - 1) = kw_import
           /\ c > b
           /\ seps # {}
        THEN LET e == CHOOSE x \in seps : \A y \in seps : y <= x
                 f == RunEnd(l, e + 1, Letters)
                 g == RunEnd(l, f, Whitespace)
             IN  [ok |-> TRUE, simple |-> SubSeq(l, e + 1, f - 1),
                  end |-> RunEnd(l, g + 1, Whitespace)]
        ELSE NoMatch

\* \b at the gap before index i of t
WordBoundary(t, i) ==
    LET before == i > 1 /\ i - 1 <= Len(t) /\ IsWord(t[i - 1])
        after  == i >= 1 /\ i <= Len(t) /\ IsWord(t[i])
    IN  before # after

\* re.search(r'\b' + re.escape(name) + r'\b', t) is not None
\* (name is a run of \w, which re.escape leaves alone)
re_search(name, t) ==
    \E i \in 1..(Len(t) - Len(name) + 1) :
        /\ \A k \in 1..Len(name) : t[i + k - 1] = name[k]
        /\ WordBoundary(t, i)
        /\ WordBoundary(t, i + Len(name))

(***************************************************************************)
(* The per-file computation, lines 9-29.                                   *)
(***************************************************************************)
\* sequence s without the positions in the set drop
RECURSIVE without_from(_, _, _)
without_from(s, i, drop) ==
    IF i > Len(s) THEN <<>>
    ELSE (IF i \in drop THEN <<>> ELSE <<s[i]>>) \o without_from(s, i + 1, drop)

\* line 12: the filter that fills import_lines
is_import_line(l) ==
    /\ startswith(strip(l), lit_import_sp)
    /\ ~startswith(strip(l), lit_import_static)

\* lines 10-13: the indices of import_lines, in order
RECURSIVE import_lines_from(_, _)
import_lines_from(ls, i) ==
    IF i > Len(ls) THEN <<>>
    ELSE (IF is_import_line(ls[i]) THEN <<i>> ELSE <<>>)
             \o import_lines_from(ls, i + 1)

import_lines(ls) == import_lines_from(ls, 1)

\* only the lines above line i, joined (idx < i for idx != i)
remaining_before(ls, i) == join(SubSeq(ls, 1, i - 1))

\* line 25: every line but line i, joined
remaining(ls, i) == join(without_from(ls, 1, {i}))

\* lines 18-27: is index i appended to to_remove_idxs
is_flagged(ls, i) ==
    LET m == re_match(ls[i])
    IN  /\ m.ok
        /\ ~re_search(m.simple, remaining(ls, i))

\* the loop with each flagged line taken out of the text the later imports
\* are searched in
RECURSIVE to_remove_cascading_from(_, _, _)
to_remove_cascading_from(ls, imps, gone) ==
    IF imps = <<>> THEN <<>>
    ELSE LET i == Head(imps)
             m == re_match(ls[i])
             hit == /\ m.ok
                    /\ ~re_search(m.simple, join(without_from(ls, 1, gone \cup {i})))
         IN  (IF hit THEN <<i>> ELSE <<>>)
                 \o to_remove_cascading_from(ls, Tail(imps),
                        IF hit THEN gone \cup {i} ELSE gone)

to_remove_cascading(ls, imps) == to_remove_cascading_from(ls, imps, {})

\* lines 16-27: to_remove_idxs after the loop over the list imps
RECURSIVE to_remove(_, _)
to_remove(ls, imps) ==
    IF imps = <<>> THEN <<>>
    ELSE (IF is_flagged(ls, Head(imps)) THEN <<Head(imps)>> ELSE <<>>)
             \o to_remove(ls, Tail(imps))

\* idx not in to_remove_idxs, line 29
Range(s) == {s[k] : k \in 1..Len(s)}

\* the flagged lines deleted one after the other, each index taken in the
\* list the deletions before it left
RECURSIVE kept_lines_shifting(_, _)
kept_lines_shifting(ls, idxs) ==
    IF idxs = <<>> THEN ls
    ELSE kept_lines_shifting(without_from(ls, 1, {Head(idxs)}), Tail(idxs))

\* the lines as read, nothing deleted
kept_lines_unpruned(ls, idxs) == ls

\* line 29
kept_lines(ls, idxs) == without_from(ls, 1, Range(idxs))

(***************************************************************************)
(* The source texts the tree is built from.                                *)
(***************************************************************************)
sp == <<" ">>
semi == <<";">>
a_B == <<"a", ".", "B">>

plain_B     == kw_import \o sp \o a_B \o semi                  \* import a.B;
plain_C     == kw_import \o sp \o <<"a", ".", "C">> \o semi    \* import a.C;
chained_C   == kw_import \o sp \o <<"B", ".", "C">> \o semi    \* import B.C;
use_B       == <<"B">> \o sp \o <<"x">> \o semi                \* B x;
static_B    == lit_import_static \o sp \o a_B \o semi          \* import static a.B;
staticx_C   == lit_import_static \o <<"x", ".", "C">> \o semi  \* import staticx.C;
wildcard    == kw_import \o sp \o <<"a", ".", "*">> \o semi    \* import a.*;
same_line_B == plain_B \o sp \o use_B                          \* import a.B; B x;
blank       == <<>>
inside_xB   == <<"x", "B">> \o semi                            \* xB;
no_dot_B    == kw_import \o sp \o <<"B">> \o semi              \* import B;
spaced_C    == sp \o kw_import \o sp \o <<"a", ".", "C">> \o sp \o semi \o sp
crlf_use_C  == <<"C">> \o sp \o <<"x">> \o semi \o <<"\r">>    \* C x;<CR>

LineSet ==
    {plain_B, chained_C, use_B, static_B, staticx_C, wildcard, same_line_B,
     blank, inside_xB, no_dot_B, spaced_C, crlf_use_C}

\* sequences over S of length at most n
RECURSIVE SeqsUpTo(_, _)
SeqsUpTo(S, n) ==
    IF n = 0 THEN {<<>>}
    ELSE LET shorter == SeqsUpTo(S, n - 1)
         IN  shorter \cup {Append(s, x) : s \in shorter, x \in S}

\* the texts the varied file can hold
FileSet == {join(ls) : ls \in SeqsUpTo(LineSet, MaxLines)}

\* the other files of the tree, in rotation: the scenario of two imports of
\* which one is used, a file without imports with CRLF line ends, a file
\* with one unused import
Companions ==
    << join(<<plain_B, plain_C, use_B>>) \o <<"\n">>,
       join(<<crlf_use_C, use_B>>),
       join(<<plain_C, blank>>) >>

\* java_files, line 5: the paths, in traversal order
java_files == 1..NumFiles

companion(k) == Companions[((k - 2) % Len(Companions)) + 1]

(***************************************************************************)
(* State. The script is module-level code: lines, to_remove_idxs and       *)
(* new_lines are globals that keep their last value.                       *)
(***************************************************************************)
VARIABLES
    disk,            \* path -> text: the content of each file
    run,             \* which invocation of the tool this is
    pc,              \* "loop", "done" (summary printed) or "aborted" (unhandled fault)
    p,               \* position in java_files of the next file of the loop of line 7
    removed,         \* the counter of line 6
    lines,           \* line 9
    to_remove_idxs,  \* line 16
    new_lines,       \* line 29
    console,         \* the lines printed by this invocation
    start,           \* history: disk when this invocation started
    prev,            \* history: disk when the invocation before this one started
    reads,           \* history: path -> read_text calls of this invocation
    writes           \* history: path -> write_text calls of this invocation

vars == <<disk, run, pc, p, removed, lines, to_remove_idxs, new_lines, console,
          start, prev, reads, writes>>

zeroes == [k \in java_files |-> 0]

\* lines 4-6; the globals of the loop are not bound yet
Init ==
    /\ \E f \in FileSet :
           disk = [k \in java_files |-> IF k = 1 THEN f ELSE companion(k)]
    /\ run = 1
    /\ pc = "loop"
    /\ p = 1
    /\ removed = 0
    /\ lines = <<>>
    /\ to_remove_idxs = <<>>
    /\ new_lines = <<>>
    /\ console = <<>>
    /\ start = disk
    /\ prev = disk
    /\ reads = zeroes
    /\ writes = zeroes

(***************************************************************************)
(* Actions.                                                                *)
(***************************************************************************)
\* line 32
removed_line(n, path) == [kind |-> "Removed", count |-> n, path |-> path]

\* line 34
done_line(n) == [kind |-> "DONE", count |-> n, path |-> 0]

\* line 30: the text written to the file
written_text(ls) == join(ls)

\* the counter counting files for lines
removed_after_one(r, idxs) == r + 1

\* line 31
removed_after(r, idxs) == r + Len(idxs)

\* line 14: the file is skipped
skipped(imps) == imps = <<>>

\* the write done whatever was flagged
must_write_always(idxs) == TRUE

\* line 28: the file is rewritten
must_write(idxs) == idxs # <<>>

\* lines 7-32: one iteration of the loop, without a fault
ProcessFile ==
    /\ pc = "loop"
    /\ p <= NumFiles
    /\ reads' = [reads EXCEPT ![p] = @ + 1]
    /\ lines' = splitlines(disk[p])
    /\ LET imps == import_lines(lines')
       IN  IF skipped(imps)
           THEN UNCHANGED <<disk, writes, removed, console, to_remove_idxs, new_lines>>
           ELSE /\ to_remove_idxs' = to_remove(lines', imps)
                /\ IF must_write(to_remove_idxs')
                   THEN /\ new_lines' = kept_lines(lines', to_remove_idxs')
                        /\ disk' = [disk EXCEPT ![p] = written_text(new_lines')]
                        /\ writes' = [writes EXCEPT ![p] = @ + 1]
                        /\ removed' = removed_after(removed, to_remove_idxs')
                        /\ console' = Append(console,
                                          removed_line(Len(to_remove_idxs'), p))
                   ELSE UNCHANGED <<disk, writes, removed, console, new_lines>>
    /\ p' = p + 1
    /\ UNCHANGED <<run, pc, start, prev>>

\* the fault caught and the loop going on with the next file
ReadFault_swallowed ==
    /\ pc = "loop"
    /\ p <= NumFiles
    /\ reads' = [reads EXCEPT ![p] = @ + 1]
    /\ p' = p + 1
    /\ UNCHANGED <<disk, run, pc, removed, lines, to_remove_idxs, new_lines,
                   console, start, prev, writes>>

\* line 8: read_text raises (permission, encoding); nothing catches it
ReadFault ==
    /\ pc = "loop"
    /\ p <= NumFiles
    /\ reads' = [reads EXCEPT ![p] = @ + 1]
    /\ pc' = "aborted"
    /\ UNCHANGED <<disk, run, p, removed, lines, to_remove_idxs, new_lines,
                   console, start, prev, writes>>

\* line 30: write_text raises, after lines 8-29 ran; the file is as it was
\* when open() failed and empty when the write after the truncating open()
\* failed
WriteFault ==
    /\ pc = "loop"
    /\ p <= NumFiles
    /\ reads' = [reads EXCEPT ![p] = @ + 1]
    /\ lines' = splitlines(disk[p])
    /\ ~skipped(import_lines(lines'))
    /\ to_remove_idxs' = to_remove(lines', import_lines(lines'))
    /\ must_write(to_remove_idxs')
    /\ new_lines' = kept_lines(lines', to_remove_idxs')
    /\ \E left \in {disk[p], <<>>} : disk' = [disk EXCEPT ![p] = left]
    /\ writes' = [writes EXCEPT ![p] = @ + 1]
    /\ pc' = "aborted"
    /\ UNCHANGED <<run, p, removed, console, start, prev>>

\* line 34: the loop is over
Finish ==
    /\ pc = "loop"
    /\ p > NumFiles
    /\ console' = Append(console, done_line(removed))
    /\ pc' = "done"
    /\ UNCHANGED <<disk, run, p, removed, lines, to_remove_idxs, new_lines,
                   start, prev, reads, writes>>

\* the tool is run again on the tree the last run left: lines 4-6 of a new
\* process, whose globals are not bound yet
StartRun ==
    /\ pc = "done"
    /\ run < MaxRuns
    /\ run' = run + 1
    /\ pc' = "loop"
    /\ p' = 1
    /\ removed' = 0
    /\ lines' = <<>>
    /\ to_remove_idxs' = <<>>
    /\ new_lines' = <<>>
    /\ console' = <<>>
    /\ start' = disk
    /\ prev' = start
    /\ reads' = zeroes
    /\ writes' = zeroes
    /\ UNCHANGED disk

Next == ProcessFile \/ ReadFault \/ WriteFault \/ Finish \/ StartRun

Spec == Init /\ [][Next]_vars

(***************************************************************************)
(* Vocabulary of the properties.                                           *)
(***************************************************************************)
\* the file the loop handled last, when no fault ended the run
Last == p - 1
Handled == pc # "aborted" /\ p > 1
Rewritten(k) == writes[k] = 1

\* the file handled last had import lines, so to_remove_idxs is its own
Scanned == Handled /\ \E i \in 1..Len(lines) : is_import_line(lines[i])

\* the indices flagged in the file handled last
Flagged == IF Scanned THEN Range(to_remove_idxs) ELSE {}

\* how many flagged indices lie below i
BelowFlagged(i) == Cardinality({r \in Range(to_remove_idxs) : r < i})

\* the simple name of a line that declares an import
SimpleName(l) == re_match(l).simple

\* name is a whole-word token of line l
WordOn(name, l) == re_search(name, l)

\* the simple name of line i is a whole-word token of another line of ls
UsedElsewhere(ls, i) ==
    \E j \in (1..Len(ls)) \ {i} : WordOn(SimpleName(ls[i]), ls[j])

\* the text of line i that follows its import declaration
AfterDeclaration(l) == SubSeq(l, re_match(l).end, Len(l))

\* l is, up to surrounding whitespace, import <w> static <w> ...
StaticImport(l) ==
    LET t == strip(l)
        b == Len(kw_import) + 1
        c == RunEnd(t, b, Whitespace)
        d == c + Len(kw_static)
    IN  /\ startswith(t, kw_import)
        /\ c > b
        /\ Len(t) >= d
        /\ SubSeq(t, c, d - 1) = kw_static
        /\ IsSpace(t[d])

\* t[i..j-1] is a non-empty run of the class cls
IsRun(t, i, j, cls) == j > i /\ \A k \in i..(j - 1) : t[k] \in cls

\* l starts, after whitespace, with import <dotted.path>.<SimpleName> ; and
\* stop is the first index after the semicolon
DeclaresUpTo(l, stop) ==
    \E a \in 1..Len(l) :
        /\ \A k \in 1..(a - 1) : IsSpace(l[k])
        /\ Len(l) >= a + Len(kw_import)
        /\ SubSeq(l, a, a + Len(kw_import) - 1) = kw_import
        /\ \E c \in (a + Len(kw_import) + 1)..Len(l) :
               /\ IsRun(l, a + Len(kw_import), c, Whitespace)
               /\ \E e \in (c + 1)..Len(l) :
                      /\ IsRun(l, c, e, WordOrDot)
                      /\ l[e] = "."
                      /\ \E f \in (e + 2)..Len(l) :
                             /\ IsRun(l, e + 1, f, Letters)
                             /\ \A k \in f..(stop - 2) : IsSpace(l[k])
                             /\ stop - 1 >= f
                             /\ l[stop - 1] = ";"

\* l begins with a single-name import declaration
SingleNameImport(l) == \E stop \in 2..(Len(l) + 1) : DeclaresUpTo(l, stop)

\* l is nothing but a single-name import declaration
SingleNameImportLine(l) ==
    \E stop \in 2..(Len(l) + 1) :
        /\ DeclaresUpTo(l, stop)
        /\ \A k \in stop..Len(l) : IsSpace(l[k])

\* the import lines the contract flags: non-static import lines of the pattern
\* whose simple name no other line of the original sequence holds
SpecFlagged(ls) ==
    {i \in 1..Len(ls) :
        /\ is_import_line(ls[i])
        /\ SingleNameImport(ls[i])
        /\ ~UsedElsewhere(ls, i)}

\* how often line l occurs in ls
CountIn(ls, l) == Cardinality({k \in 1..Len(ls) : ls[k] = l})

\* the lines of file k as the tool reads them
LinesOf(d, k) == splitlines(d[k])

(***************************************************************************)
(* Properties.                                                             *)
(***************************************************************************)
\* the lines the run before this one deleted from file k
DeletedBefore(k) == Range(LinesOf(prev, k)) \ Range(LinesOf(start, k))

\* no line the run before deleted from file k holds the simple name of an
\* import declaration that run kept
Unchained(k) ==
    \A i \in 1..Len(LinesOf(start, k)) :
        SingleNameImport(LinesOf(start, k)[i]) =>
            \A d \in DeletedBefore(k) :
                ~WordOn(SimpleName(LinesOf(start, k)[i]), d)

Survives(i) ==
    /\ \E j \in 1..Len(LinesOf(disk, Last)) : LinesOf(disk, Last)[j] = lines[i]
    /\ Rewritten(Last) =>
           /\ i \notin Range(to_remove_idxs)
           /\ new_lines[i - BelowFlagged(i)] = lines[i]
    /\ ~Rewritten(Last) => disk[Last] = start[Last]

C3_UnusedImportRemoved ==
    Handled =>
        \A i \in 1..Len(lines) :
            ( /\ SingleNameImportLine(lines[i])
              /\ ~StaticImport(lines[i])
              /\ ~UsedElsewhere(lines, i) )
            => \A j \in 1..Len(LinesOf(disk, Last)) :
                   LinesOf(disk, Last)[j] # lines[i]

\* C4: the rewritten file holds the original lines without the flagged ones:
\* every other line at its place in the same order, nothing added, joined by
\* newlines.
C4_RewriteDeletesExactlyFlagged ==
    (Handled /\ Rewritten(Last)) =>
        /\ lines = LinesOf(start, Last)
        /\ Range(to_remove_idxs) \subseteq 1..Len(lines)
        /\ Len(new_lines) = Len(lines) - Cardinality(Range(to_remove_idxs))
        /\ \A i \in (1..Len(lines)) \ Range(to_remove_idxs) :
               new_lines[i - BelowFlagged(i)] = lines[i]
        /\ disk[Last] = join(new_lines)

\* a rewrite deleted a line above a line it kept
C4_Witness ==
    /\ Handled
    /\ Rewritten(Last)
    /\ \E i \in (1..Len(lines)) \ Range(to_remove_idxs) :
           /\ BelowFlagged(i) > 0
           /\ new_lines[i - BelowFlagged(i)] = lines[i]

\* C5: a line is removed only if it is a non-static import line that starts
\* with the pattern import <package-path>.<SimpleName> ; so static imports,
\* wildcard imports, imports without a dot and lines that are no imports stay.
C5_OnlyPatternImportsRemoved ==
    Handled =>
        /\ \A i \in Flagged :
               /\ startswith(strip(lines[i]), lit_import_sp)
               /\ ~StaticImport(lines[i])
               /\ SingleNameImport(lines[i])
        /\ Rewritten(Last) =>
               \A i \in 1..Len(lines) :
                   CountIn(new_lines, lines[i]) < CountIn(lines, lines[i]) =>
                       /\ startswith(strip(lines[i]), lit_import_sp)
                       /\ ~StaticImport(lines[i])
                       /\ SingleNameImport(lines[i])
        /\ ~Rewritten(Last) => disk[Last] = start[Last]

\* a rewrite kept a static import, a wildcard import and an import without a
\* dot somewhere, and removed a line
C5_Witness ==
    /\ Handled
    /\ Rewritten(Last)
    /\ Len(new_lines) < Len(lines)
    /\ \E i \in 1..Len(new_lines) :
           \/ StaticImport(new_lines[i])
           \/ new_lines[i] \in {wildcard, no_dot_B}

\* the console lines about file k
AboutFile(k) == {j \in 1..Len(console) : console[j].kind = "Removed" /\ console[j].path = k}

\* C6: a file is written exactly when one of its import lines is flagged; a
\* file without import lines and a file whose import lines all stay is not
\* written, holds the bytes it held, and has no console line.
C6_WrittenIffFlagged ==
    Handled =>
        /\ Rewritten(Last) <=> SpecFlagged(lines) # {}
        /\ (\A i \in 1..Len(lines) : ~is_import_line(lines[i])) => ~Rewritten(Last)
        /\ \A k \in 1..Last :
               writes[k] = 0 => (disk[k] = start[k] /\ AboutFile(k) = {})

\* a file with import lines that all stay was handled and not written
C6_Witness ==
    /\ Handled
    /\ ~Rewritten(Last)
    /\ \E i \in 1..Len(lines) : is_import_line(lines[i]) /\ SingleNameImport(lines[i])
    /\ disk[Last] = start[Last]

\* C7 as stated: no import line is removed whose simple name is a whole-word
\* token of the file outside its declaration, the rest of its own line
\* included.
C7_NeverRemovesUsedImport ==
    Handled =>
        \A i \in Flagged :
            /\ ~UsedElsewhere(lines, i)
            /\ ~WordOn(SimpleName(lines[i]), AfterDeclaration(lines[i]))

\* the sum of the counts of the Removed lines among the first n console lines
RECURSIVE SumRemoved(_)
SumRemoved(n) ==
    IF n = 0 THEN 0
    ELSE SumRemoved(n - 1)
             + (IF console[n].kind = "Removed" THEN console[n].count ELSE 0)

\* C8: one Removed line per rewritten file and none for the others, each with
\* a count above zero that is the number of lines deleted from the file, and a
\* DONE line whose total is the sum of the counts.
C8_ConsoleMatchesEdits ==
    /\ \A k \in java_files :
           Cardinality(AboutFile(k)) = (IF writes[k] = 1 /\ k < p THEN 1 ELSE 0)
    /\ \A j \in 1..Len(console) : console[j].kind = "Removed" => console[j].count > 0
    /\ (Handled /\ Rewritten(Last)) =>
           \E j \in AboutFile(Last) :
               /\ console[j].count = Len(lines) - Len(new_lines)
               /\ \A i \in 1..Len(console) : console[i].kind = "Removed" => i <= j
    /\ removed = SumRemoved(Len(console))
    /\ pc = "done" =>
           /\ console[Len(console)] = done_line(SumRemoved(Len(console)))
           /\ \A j \in 1..(Len(console) - 1) : console[j].kind = "Removed"
    /\ pc # "done" => \A j \in 1..Len(console) : console[j].kind = "Removed"

\* a run ended that rewrote two files, one of which lost two lines
C8_Witness ==
    /\ pc = "done"
    /\ Len(console) = 3
    /\ console[1].count = 2
    /\ console[3] = done_line(console[1].count + console[2].count)

Pruned(t) ==
    LET ls == splitlines(t)
        keep == (1..Len(ls)) \ SpecFlagged(ls)
        nth(j) == CHOOSE i \in keep : Cardinality({x \in keep : x < i}) = j - 1
    IN  IF SpecFlagged(ls) = {} THEN t
        ELSE join([j \in 1..Cardinality(keep) |-> ls[nth(j)]])

\* C10: files are handled one at a time in traversal order, each read at most
\* once and written at most once; when a fault ends the run at a file, the
\* files before it are pruned, the files after it are as they were, and no
\* summary is printed.
C10_OneAtATimeAndAbort ==
    /\ \A k \in java_files :
           /\ reads[k] <= 1 /\ writes[k] <= 1
           /\ k < p => (reads[k] = 1 /\ disk[k] = Pruned(start[k]))
           /\ k > p => (reads[k] = 0 /\ writes[k] = 0 /\ disk[k] = start[k])
           /\ (k = p /\ pc = "loop") =>
                  (reads[k] = 0 /\ writes[k] = 0 /\ disk[k] = start[k])
    /\ pc = "aborted" =>
           /\ p \in java_files
           /\ reads[p] = 1
           /\ \A j \in 1..Len(console) : console[j].kind # "DONE"

\* a fault ended the run at the second file, after the first was rewritten
C10_Witness ==
    /\ pc = "aborted"
    /\ p = 2
    /\ writes[1] = 1
    /\ disk[1] # start[1]
    /\ \A k \in java_files : k > p => disk[k] = start[k]

=============================================================================
